---- MODULE Spec2Model ----
(***************************************************************************)
(* Model of src/app.py: the search_web tool (three sequential DuckDuckGo   *)
(* phases sharing one dedup set) and the Streamlit chat loop of main().    *)
(* Text is modelled by TLA+ strings, so slicing, concatenation and the     *)
(* substring test are computed on the characters themselves.               *)
(***************************************************************************)
EXTENDS Integers, Sequences, FiniteSets, TLC

VARIABLES
    year,          \* CURRENT_YEAR, fixed when the module is loaded
    pc,            \* per search_web invocation: its position in the function
    query,         \* per invocation: the query argument
    output,        \* per invocation: the local list `output`
    seen_content,  \* per invocation: the local set `seen_content`
    emitted,       \* per invocation: the hits whose entry was appended (history)
    calls,         \* per invocation: the backend calls issued so far (history)
    recv,          \* per invocation: what the backend answered (history)
    result,        \* per invocation: the returned string
    keySet,        \* UI: an API key is available to this session
    sessionKeys,   \* UI: the keys present in st.session_state
    messages,      \* UI: st.session_state.messages
    memory,        \* UI: number of exchanges held by the agent's memory
    lastRun        \* UI: what the last completed script run was (history)

searchVars == <<year, pc, query, output, seen_content, emitted, calls, recv, result>>
uiVars == <<keySet, sessionKeys, messages, memory, lastRun>>
vars == <<year, pc, query, output, seen_content, emitted, calls, recv, result,
          keySet, sessionKeys, messages, memory, lastRun>>

-----------------------------------------------------------------------------
(* Bounds of the model *)

\* longest hit list a backend call returns in Spec
MaxHits == 2
\* longest hit list a backend call returns in SpecConc
MaxHitsConc == 1
\* most chat submissions kept in one UI session
MaxTurns == 2

(* Program constants *)

\* body[:100]
KeyLen == 100
\* date[:10]
DateLen == 10
\* max_results of the news and text calls
MaxResults == 5
\* max_results of the year-qualified news call
MaxYearResults == 3

-----------------------------------------------------------------------------
(* Strings *)

Min(a, b) == IF a <= b THEN a ELSE b

\* s[:n]
Slice(s, n) == SubSeq(s, 1, Min(n, Len(s)))

\* t in s
Contains(s, t) ==
    \E k \in 1..(Len(s) - Len(t) + 1) : SubSeq(s, k, k + Len(t) - 1) = t

\* sep.join(seq)
RECURSIVE Join(_, _)
Join(sep, seq) ==
    IF seq = <<>> THEN ""
    ELSE IF Len(seq) = 1 THEN seq[1]
    ELSE seq[1] \o sep \o Join(sep, Tail(seq))

NEWS_HEADER == "=== RECENT NEWS ==="
WEB_HEADER == "\n=== WEB RESULTS ==="
YearHeader(y) == "\n=== " \o ToString(y) \o " SPECIFIC RESULTS ==="

NotFoundMessage(q) ==
    "No search results found for '" \o q \o "'. Try rephrasing or adding more context."

SearchErrorMessage(e) ==
    "Search error: " \o e \o ". Please try a different query."

-----------------------------------------------------------------------------
(* Hits *)

\* r.get('date', '')[:10] if r.get('date') else ''
HitDate(r) == IF r.date # "" THEN Slice(r.date, DateLen) ELSE ""

ContentKeyWholeBody(r) == IF r.body # "" THEN r.body ELSE r.title

\* content_key = body[:100] if body else title
content_key(r) == IF r.body # "" THEN Slice(r.body, KeyLen) ELSE r.title

FormatNews(r) ==
    "[" \o HitDate(r) \o "] (" \o r.source \o ") " \o r.title \o "\n" \o r.body

FormatWeb(r) == r.title \o "\n" \o r.body \o "\nSource: " \o r.href

FormatYear(r) == "[" \o HitDate(r) \o "] " \o r.title \o "\n" \o r.body

Format(kind, r) ==
    CASE kind = "news" -> FormatNews(r)
      [] kind = "web" -> FormatWeb(r)
      [] kind = "year" -> FormatYear(r)

\* the loop run over the hits from the last to the first
RECURSIVE ProcessHitsLastFirst(_, _, _)
ProcessHitsLastFirst(kind, hits, st) ==
    IF hits = <<>> THEN st
    ELSE LET r == hits[Len(hits)]
             key == content_key(r)
             rest == SubSeq(hits, 1, Len(hits) - 1)
         IN  IF key \notin st.seen
             THEN ProcessHitsLastFirst(kind, rest,
                      [st EXCEPT !.seen = @ \cup {key},
                                 !.output = Append(@, Format(kind, r)),
                                 !.emitted = Append(@, [kind |-> kind, hit |-> r])])
             ELSE ProcessHitsLastFirst(kind, rest, st)

\* the for-loop of one phase: dedup against the shared set, append the survivors
RECURSIVE ProcessHits(_, _, _)
ProcessHits(kind, hits, st) ==
    IF hits = <<>> THEN st
    ELSE LET r == Head(hits)
             key == content_key(r)
         IN  IF key \notin st.seen
             THEN ProcessHits(kind, Tail(hits),
                      [st EXCEPT !.seen = @ \cup {key},
                                 !.output = Append(@, Format(kind, r)),
                                 !.emitted = Append(@, [kind |-> kind, hit |-> r])])
             ELSE ProcessHits(kind, Tail(hits), st)

-----------------------------------------------------------------------------
(* The backend: what a DDGS call, its construction or its exit can answer *)

ErrDescs == {"timeout"}

Raised(e) == [status |-> "raised", hits |-> <<>>, err |-> e]
Returned(hs) == [status |-> "ok", hits |-> hs, err |-> ""]
NotCalled == [status |-> "none", hits |-> <<>>, err |-> ""]

SeqUpTo(S, n) == UNION {[1..k -> S] : k \in 0..n}

\* the answers of one search call asked for at most `max` results
Responses(pool, bound, max) ==
    {Returned(hs) : hs \in SeqUpTo(pool, Min(bound, max))}
        \cup {Raised(e) : e \in ErrDescs}

\* the answers of DDGS() / __enter__ and of __exit__
Outcomes == {Returned(<<>>)} \cup {Raised(e) : e \in ErrDescs}

P10 == "abcdefghij"
P100 == P10 \o P10 \o P10 \o P10 \o P10 \o P10 \o P10 \o P10 \o P10 \o P10

\* two long bodies that agree on their first 100 characters
HitLongA ==
    [title |-> "Alpha", body |-> P100 \o "x", date |-> "", source |-> "bbc",
     href |-> "u/a"]
HitLongB ==
    [title |-> "Beta", body |-> P100 \o "y", date |-> "2025-01-02", source |-> "cnn",
     href |-> "u/b"]
\* no body: keyed by its title; its date starts with a year
HitDated ==
    [title |-> "Gamma", body |-> "", date |-> "2026-10-31T08:00:00", source |-> "ap",
     href |-> "u/g"]
\* its body is the title of HitDated; the year is past the tenth character of its
\* date and inside its href
HitLate ==
    [title |-> "Delta", body |-> "Gamma", date |-> "Sat 31 Oct 2026", source |-> "",
     href |-> "u/2026/d"]

NewsPool == {HitLongA, HitDated, HitLate}
WebPool == {HitLongB, HitDated, HitLate}
YearPool == {HitLongA, HitLongB, HitDated}
ConcPool == {HitDated}

Years == {2026, 2027}
Queries == {"acme ceo", "nba finals"}

-----------------------------------------------------------------------------
(* search_web, one phase at a time.  A local state st is the record          *)
(* [pc, output, seen, emitted, result]; pc = "raised" stands for an          *)
(* exception leaving search_web.                                             *)

InitLocal ==
    [pc |-> "start", output |-> <<>>, seen |-> {}, emitted |-> <<>>, result |-> ""]

\* no outer handler: a failure of DDGS() leaves search_web as an exception
EnterUncaught(st, resp) ==
    IF resp.status = "raised" THEN [st EXCEPT !.pc = "raised"]
    ELSE [st EXCEPT !.pc = "news"]

\* try: ... with DDGS() as ddgs: ... except Exception as e: return "Search error"
enter(st, resp) ==
    IF resp.status = "raised"
    THEN [st EXCEPT !.pc = "done", !.result = SearchErrorMessage(resp.err)]
    ELSE [st EXCEPT !.pc = "news"]

\* no inner handler: a failure of ddgs.news reaches the outer handler
NewsPhaseAbort(st, resp) ==
    IF resp.status = "raised"
    THEN [st EXCEPT !.pc = "done", !.result = SearchErrorMessage(resp.err)]
    ELSE IF resp.hits # <<>>
         THEN ProcessHits("news", resp.hits,
                  [st EXCEPT !.pc = "web", !.output = Append(@, NEWS_HEADER)])
         ELSE [st EXCEPT !.pc = "web"]

\* 1. NEWS SEARCH
news_phase(st, resp) ==
    IF resp.status = "raised" THEN [st EXCEPT !.pc = "web"]
    ELSE IF resp.hits # <<>>
         THEN ProcessHits("news", resp.hits,
                  [st EXCEPT !.pc = "web", !.output = Append(@, NEWS_HEADER)])
         ELSE [st EXCEPT !.pc = "web"]

\* the handler of the web phase throws away what was collected so far
WebPhaseReset(st, resp) ==
    IF resp.status = "raised"
    THEN [st EXCEPT !.pc = "check", !.output = <<>>, !.seen = {}, !.emitted = <<>>]
    ELSE IF resp.hits # <<>>
         THEN ProcessHits("web", resp.hits,
                  [st EXCEPT !.pc = "check", !.output = Append(@, WEB_HEADER)])
         ELSE [st EXCEPT !.pc = "check"]

\* 2. WEB SEARCH
web_phase(st, resp) ==
    IF resp.status = "raised" THEN [st EXCEPT !.pc = "check"]
    ELSE IF resp.hits # <<>>
         THEN ProcessHits("web", resp.hits,
                  [st EXCEPT !.pc = "check", !.output = Append(@, WEB_HEADER)])
         ELSE [st EXCEPT !.pc = "check"]

\* the retry made only when nothing was found at all
YearTriggerWhenEmpty(out, y) == out = <<>>

\* not any(str(CURRENT_YEAR) in str(r) for r in output)
year_trigger(out, y) ==
    ~ \E k \in 1..Len(out) : Contains(out[k], ToString(y))

\* 3. the if that guards the year-qualified search
year_check(st, y) ==
    IF year_trigger(st.output, y) THEN [st EXCEPT !.pc = "year"]
    ELSE [st EXCEPT !.pc = "exit"]

\* year_query = f"{query} {CURRENT_YEAR}"
year_query(q, y) == q \o " " \o ToString(y)

\* the year-qualified news search
year_phase(st, y, resp) ==
    IF resp.status = "raised" THEN [st EXCEPT !.pc = "exit"]
    ELSE IF resp.hits # <<>>
         THEN ProcessHits("year", resp.hits,
                  [st EXCEPT !.pc = "exit", !.output = Append(@, YearHeader(y))])
         ELSE [st EXCEPT !.pc = "exit"]

\* the join returned without the test for an empty output
LeaveNoEmptyCheck(st, q, resp) ==
    IF resp.status = "raised"
    THEN [st EXCEPT !.pc = "done", !.result = SearchErrorMessage(resp.err)]
    ELSE [st EXCEPT !.pc = "done", !.result = Join("\n\n", st.output)]

\* leaving the with block, then the two returns; an exception of __exit__ is
\* caught by the outer handler
leave(st, q, resp) ==
    IF resp.status = "raised"
    THEN [st EXCEPT !.pc = "done", !.result = SearchErrorMessage(resp.err)]
    ELSE IF st.output = <<>>
         THEN [st EXCEPT !.pc = "done", !.result = NotFoundMessage(q)]
         ELSE [st EXCEPT !.pc = "done", !.result = Join("\n\n", st.output)]

\* search_web run from start to end on given answers: rv is the record
\* [enter, news, web, year, exit] of backend answers
search_web(q, y, rv) ==
    LET s0 == enter(InitLocal, rv.enter)
    IN  IF s0.pc # "news" THEN s0
        ELSE LET s1 == news_phase(s0, rv.news)
             IN  IF s1.pc # "web" THEN s1
                 ELSE LET s2 == web_phase(s1, rv.web)
                      IN  IF s2.pc # "check" THEN s2
                          ELSE LET c == year_check(s2, y)
                                   s3 == IF c.pc = "year"
                                         THEN year_phase(c, y, rv.year)
                                         ELSE c
                               IN  IF s3.pc # "exit" THEN s3
                                   ELSE leave(s3, q, rv.exit)

-----------------------------------------------------------------------------
(* The invocations as processes *)

\* one module-level set read by every invocation
SeenByAll(i) == UNION {seen_content[j] : j \in DOMAIN seen_content}

\* the dedup set an invocation reads: its own local
SeenBy(i) == seen_content[i]

Local(i) ==
    [pc |-> pc[i], output |-> output[i], seen |-> SeenBy(i),
     emitted |-> emitted[i], result |-> result[i]]

Store(i, st) ==
    /\ pc' = [pc EXCEPT ![i] = st.pc]
    /\ output' = [output EXCEPT ![i] = st.output]
    /\ seen_content' = [seen_content EXCEPT ![i] = st.seen]
    /\ emitted' = [emitted EXCEPT ![i] = st.emitted]
    /\ result' = [result EXCEPT ![i] = st.result]

NoAnswers ==
    [enter |-> NotCalled, news |-> NotCalled, web |-> NotCalled,
     year |-> NotCalled, exit |-> NotCalled]

Enter(i) ==
    /\ pc[i] = "start"
    /\ \E resp \in Outcomes :
          /\ Store(i, enter(Local(i), resp))
          /\ recv' = [recv EXCEPT ![i].enter = resp]
    /\ UNCHANGED <<year, query, calls>>
    /\ UNCHANGED uiVars

NewsPhase(i, pool, bound) ==
    /\ pc[i] = "news"
    /\ \E resp \in Responses(pool, bound, MaxResults) :
          /\ Store(i, news_phase(Local(i), resp))
          /\ recv' = [recv EXCEPT ![i].news = resp]
    /\ calls' = [calls EXCEPT ![i] =
                    Append(@, [op |-> "news", q |-> query[i], max |-> MaxResults])]
    /\ UNCHANGED <<year, query>>
    /\ UNCHANGED uiVars

WebPhase(i, pool, bound) ==
    /\ pc[i] = "web"
    /\ \E resp \in Responses(pool, bound, MaxResults) :
          /\ Store(i, web_phase(Local(i), resp))
          /\ recv' = [recv EXCEPT ![i].web = resp]
    /\ calls' = [calls EXCEPT ![i] =
                    Append(@, [op |-> "text", q |-> query[i], max |-> MaxResults])]
    /\ UNCHANGED <<year, query>>
    /\ UNCHANGED uiVars

YearCheck(i) ==
    /\ pc[i] = "check"
    /\ Store(i, year_check(Local(i), year))
    /\ UNCHANGED <<year, query, calls, recv>>
    /\ UNCHANGED uiVars

YearPhase(i, pool, bound) ==
    /\ pc[i] = "year"
    /\ \E resp \in Responses(pool, bound, MaxYearResults) :
          /\ Store(i, year_phase(Local(i), year, resp))
          /\ recv' = [recv EXCEPT ![i].year = resp]
    /\ calls' = [calls EXCEPT ![i] =
                    Append(@, [op |-> "news", q |-> year_query(query[i], year),
                               max |-> MaxYearResults])]
    /\ UNCHANGED <<year, query>>
    /\ UNCHANGED uiVars

Leave(i) ==
    /\ pc[i] = "exit"
    /\ \E resp \in Outcomes :
          /\ Store(i, leave(Local(i), query[i], resp))
          /\ recv' = [recv EXCEPT ![i].exit = resp]
    /\ UNCHANGED <<year, query, calls>>
    /\ UNCHANGED uiVars

UIIdle ==
    /\ keySet = FALSE
    /\ sessionKeys = {}
    /\ messages = <<>>
    /\ memory = 0
    /\ lastRun = "none"

InitSearch(invs) ==
    /\ year \in Years
    /\ query \in [invs -> Queries]
    /\ pc = [i \in invs |-> "start"]
    /\ output = [i \in invs |-> <<>>]
    /\ seen_content = [i \in invs |-> {}]
    /\ emitted = [i \in invs |-> <<>>]
    /\ calls = [i \in invs |-> <<>>]
    /\ recv = [i \in invs |-> NoAnswers]
    /\ result = [i \in invs |-> ""]

\* one invocation of search_web
Init ==
    /\ InitSearch({"a"})
    /\ UIIdle

Next ==
    \E i \in DOMAIN pc :
        \/ Enter(i)
        \/ NewsPhase(i, NewsPool, MaxHits)
        \/ WebPhase(i, WebPool, MaxHits)
        \/ YearCheck(i)
        \/ YearPhase(i, YearPool, MaxHits)
        \/ Leave(i)

Spec == Init /\ [][Next]_vars

-----------------------------------------------------------------------------
(* Properties of one search_web invocation *)

\* the dedup key as the data model states it: the first 100 characters of the
\* body when the body is not empty, otherwise the title
DedupKeyOf(h) ==
    IF Len(h.body) = 0 THEN h.title
    ELSE IF Len(h.body) <= 100 THEN h.body
    ELSE SubSeq(h.body, 1, 100)

IsHeader(e) == e \in {NEWS_HEADER, WEB_HEADER, YearHeader(year)}

\* the hit entries of an output list: what is left without the section headers
HitEntries(out) == SelectSeq(out, LAMBDA e : ~ IsHeader(e))

Rendered(tagged) ==
    [k \in 1..Len(tagged) |-> Format(tagged[k].kind, tagged[k].hit)]

Tagged(kind, hits) == [k \in 1..Len(hits) |-> [kind |-> kind, hit |-> hits[k]]]

\* the aggregator itself did not fail: the backend was entered and left
Healthy(i) == recv[i].enter.status = "ok" /\ recv[i].exit.status = "ok"

\* C1: the digest never holds two hit entries with the same dedup key, whether
\* they come from one phase or from different phases; the hit entries of the
\* output are exactly the recorded emissions and the digest is their join.
C1_NoDuplicateKeys ==
    \A i \in DOMAIN pc :
        /\ HitEntries(output[i]) = Rendered(emitted[i])
        /\ \A j, k \in 1..Len(emitted[i]) :
              j < k => DedupKeyOf(emitted[i][j].hit) # DedupKeyOf(emitted[i][k].hit)
        /\ (pc[i] = "done" /\ Healthy(i) /\ output[i] # <<>>)
              => result[i] = Join("\n\n", output[i])

\* a finished call in which a web hit was dropped because a news hit with another
\* body but the same 100-character prefix had been emitted
C1_Witness ==
    \E i \in DOMAIN pc :
        /\ pc[i] = "done" /\ Healthy(i)
        /\ \E j \in 1..Len(emitted[i]) :
              emitted[i][j] = [kind |-> "news", hit |-> HitLongA]
        /\ \E k \in 1..Len(recv[i].web.hits) : recv[i].web.hits[k] = HitLongB
        /\ \A j \in 1..Len(emitted[i]) : emitted[i][j].hit # HitLongB
        /\ Len(emitted[i]) >= 2

\* e holds the decimal text of y as a substring
MentionsYear(e, y) ==
    LET digits == ToString(y)
    IN  \E a \in 1..Len(e) :
           /\ a + Len(digits) - 1 <= Len(e)
           /\ SubSeq(e, a, a + Len(digits) - 1) = digits

\* C2: when the news and web phases are over, the year-qualified search is
\* issued if and only if no entry of the output so far contains the decimal
\* text of the current year.  (Between the check and the year-qualified call,
\* and after a check that skipped it, the output is still the one checked.)
C2_YearSearchIff ==
    \A i \in DOMAIN pc :
        /\ pc[i] = "year"
              => /\ Len(calls[i]) = 2
                 /\ \A k \in 1..Len(output[i]) : ~ MentionsYear(output[i][k], year)
        /\ (pc[i] = "exit" /\ Len(calls[i]) = 2)
              => \E k \in 1..Len(output[i]) : MentionsYear(output[i][k], year)
        /\ (pc[i] = "exit" /\ Len(calls[i]) = 3)
              => calls[i][3] = [op |-> "news", q |-> query[i] \o " " \o ToString(year),
                                max |-> 3]
        /\ (pc[i] = "done" /\ recv[i].enter.status = "ok")
              => (Len(calls[i]) = 3 <=> recv[i].year.status # "none")

\* the year search was skipped because an emitted hit entry mentions the year
C2_Witness ==
    \E i \in DOMAIN pc :
        /\ pc[i] = "exit"
        /\ Len(calls[i]) = 2
        /\ \E k \in 1..Len(emitted[i]) :
              MentionsYear(Format(emitted[i][k].kind, emitted[i][k].hit), year)

Phases == {"news", "web", "year"}

RaisedPhases(rv) == {p \in Phases : rv[p].status = "raised"}

\* the answers with every raised phase replaced by an empty hit list
Healed(rv) ==
    [p \in DOMAIN rv |->
        IF p \in Phases /\ rv[p].status = "raised" THEN Returned(<<>>) ELSE rv[p]]

\* C3: when exactly one phase call raises, the call ends as if that phase had
\* returned no hits: same entries, same digest, and no error string.
C3_RaisedPhaseIsEmptyPhase ==
    \A i \in DOMAIN pc :
        (pc[i] = "done" /\ recv[i].enter.status = "ok"
            /\ recv[i].exit.status # "raised"
            /\ Cardinality(RaisedPhases(recv[i])) = 1)
        => LET ref == search_web(query[i], year, Healed(recv[i]))
           IN  /\ result[i] = ref.result
               /\ output[i] = ref.output
               /\ emitted[i] = ref.emitted
               /\ result[i] # SearchErrorMessage(recv[i][CHOOSE p \in RaisedPhases(recv[i]) : TRUE].err)

\* the web call raised, the other two phases emitted hits
C3_Witness ==
    \E i \in DOMAIN pc :
        /\ pc[i] = "done" /\ Healthy(i)
        /\ RaisedPhases(recv[i]) = {"web"}
        /\ \E k \in 1..Len(emitted[i]) : emitted[i][k].kind = "news"
        /\ \E k \in 1..Len(emitted[i]) : emitted[i][k].kind = "year"

\* C4: search_web never lets an exception out; it returns a string, and a
\* failure outside the three phase calls is returned as the Search error
\* string, not as the not-found message.
C4_AlwaysReturnsString ==
    \A i \in DOMAIN pc :
        /\ pc[i] # "raised"
        /\ pc[i] = "done" => Len(result[i]) > 0
        /\ \A step \in {"enter", "exit"} :
              (pc[i] = "done" /\ recv[i][step].status = "raised")
              => /\ result[i] = "Search error: " \o recv[i][step].err
                                   \o ". Please try a different query."
                 /\ result[i] # NotFoundMessage(query[i])

\* DDGS() failed: the call is over and no phase ran
C4_Witness ==
    \E i \in DOMAIN pc :
        /\ pc[i] = "done"
        /\ recv[i].enter.status = "raised"
        /\ calls[i] = <<>>

\* C5: when no hit survives in any phase, the call returns exactly the
\* not-found message with the query echoed.
C5_NotFoundWhenNothingSurvives ==
    \A i \in DOMAIN pc :
        (pc[i] = "done" /\ Healthy(i) /\ emitted[i] = <<>>)
        => result[i] = "No search results found for '" \o query[i]
                          \o "'. Try rephrasing or adding more context."

\* nothing survived: one phase raised, the others returned no hits
C5_Witness ==
    \E i \in DOMAIN pc :
        /\ pc[i] = "done" /\ Healthy(i) /\ emitted[i] = <<>>
        /\ recv[i].news.status = "raised"
        /\ recv[i].web = Returned(<<>>)
        /\ recv[i].year = Returned(<<>>)

\* the first-occurrence filter, by dedup key, of a list of tagged hits
RECURSIVE FirstOccurrences(_, _)
FirstOccurrences(tagged, keys) ==
    IF tagged = <<>> THEN <<>>
    ELSE IF DedupKeyOf(Head(tagged).hit) \in keys
         THEN FirstOccurrences(Tail(tagged), keys)
         ELSE <<Head(tagged)>> \o
                 FirstOccurrences(Tail(tagged), keys \cup {DedupKeyOf(Head(tagged).hit)})

AllReceived(rv) ==
    Tagged("news", rv.news.hits) \o Tagged("web", rv.web.hits)
        \o Tagged("year", rv.year.hits)

\* C6: the hit entries of the digest are the first-occurrence filter of the news
\* hits, then the web hits, then the year hits, each in backend order.
C6_FirstOccurrenceOrder ==
    \A i \in DOMAIN pc :
        HitEntries(output[i]) = Rendered(FirstOccurrences(AllReceived(recv[i]), {}))

\* the news hit won over the web hit with the same prefix, and a later web hit
\* was kept behind it
C6_Witness ==
    \E i \in DOMAIN pc :
        /\ pc[i] = "done" /\ Healthy(i)
        /\ recv[i].news.hits = <<HitLate, HitLongA>>
        /\ recv[i].web.hits = <<HitLongB, HitDated>>
        /\ Len(emitted[i]) = 2

HeaderOf(kind) ==
    CASE kind = "news" -> NEWS_HEADER
      [] kind = "web" -> WEB_HEADER
      [] kind = "year" -> YearHeader(year)

\* C7: a section header is in the returned digest only if a hit of its phase
\* survived deduplication and is emitted under it.
C7_HeaderOnlyWithHits ==
    \A i \in DOMAIN pc :
        (pc[i] = "done" /\ Healthy(i)) =>
            \A kind \in Phases :
                Contains(result[i], HeaderOf(kind))
                => \E k \in 1..Len(emitted[i]) : emitted[i][k].kind = kind

IsPrefix(s, t) == Len(s) <= Len(t) /\ s = SubSeq(t, 1, Len(s))

ExpectedCalls(q, y) ==
    << [op |-> "news", q |-> q, max |-> 5],
       [op |-> "text", q |-> q, max |-> 5],
       [op |-> "news", q |-> q \o " " \o ToString(y), max |-> 3] >>

\* C8: the backend calls are news, then web, then at most one year-qualified
\* news call, in that order, each at most once; the web call and the year check
\* follow whether the call before returned or raised.
C8_CallOrder ==
    \A i \in DOMAIN pc :
        /\ IsPrefix(calls[i], ExpectedCalls(query[i], year))
        /\ pc[i] = "news" => Len(calls[i]) = 0
        /\ pc[i] = "web" => Len(calls[i]) = 1
        /\ pc[i] \in {"check", "year"} => Len(calls[i]) = 2
        /\ pc[i] = "exit" => Len(calls[i]) \in {2, 3}
        /\ (pc[i] = "done" /\ recv[i].enter.status = "ok") => Len(calls[i]) \in {2, 3}

\* news and web both raised, and the year-qualified call was still issued
C8_Witness ==
    \E i \in DOMAIN pc :
        /\ pc[i] = "done"
        /\ recv[i].news.status = "raised"
        /\ recv[i].web.status = "raised"
        /\ Len(calls[i]) = 3

-----------------------------------------------------------------------------
(* Two invocations of search_web, their steps interleaved *)

InitConc ==
    /\ InitSearch({"a", "b"})
    /\ UIIdle

NextConc ==
    \E i \in DOMAIN pc :
        \/ Enter(i)
        \/ NewsPhase(i, ConcPool, MaxHitsConc)
        \/ WebPhase(i, ConcPool, MaxHitsConc)
        \/ YearCheck(i)
        \/ YearPhase(i, ConcPool, MaxHitsConc)
        \/ Leave(i)

SpecConc == InitConc /\ [][NextConc]_vars

\* C9: the dedup set and the output are private to an invocation: whatever the
\* interleaving, the keys an invocation holds are those of its own emissions,
\* and its result is the one search_web computes alone from its own query, the
\* year and the answers it received.
C9_InvocationsIndependent ==
    \A i \in DOMAIN pc :
        /\ seen_content[i] =
              {DedupKeyOf(emitted[i][k].hit) : k \in 1..Len(emitted[i])}
        /\ HitEntries(output[i]) = Rendered(FirstOccurrences(AllReceived(recv[i]), {}))
        /\ pc[i] = "done"
              => LET alone == search_web(query[i], year, recv[i])
                 IN  /\ result[i] = alone.result
                     /\ output[i] = alone.output
                     /\ seen_content[i] = alone.seen

\* one invocation is over, the other is still between two phases, and both have
\* emitted the same hit
C9_Witness ==
    \E i, j \in DOMAIN pc :
        /\ i # j
        /\ pc[i] = "done" /\ Healthy(i)
        /\ pc[j] \in {"web", "check", "year", "exit"}
        /\ \E k \in 1..Len(emitted[i]) : emitted[i][k].hit = HitDated
        /\ \E k \in 1..Len(emitted[j]) : emitted[j][k].hit = HitDated

-----------------------------------------------------------------------------
(* The chat loop: one action per completed script run of main() *)

UPPER == "ABCDEFGHIJKLMNOPQRSTUVWXYZ"
LOWER == "abcdefghijklmnopqrstuvwxyz"

LowerChar(c) ==
    IF \E k \in 1..Len(UPPER) : SubSeq(UPPER, k, k) = c
    THEN LET k == CHOOSE k \in 1..Len(UPPER) : SubSeq(UPPER, k, k) = c
         IN  SubSeq(LOWER, k, k)
    ELSE c

\* s.lower()
RECURSIVE Lower(_)
Lower(s) ==
    IF Len(s) = 0 THEN ""
    ELSE LowerChar(SubSeq(s, 1, 1)) \o Lower(SubSeq(s, 2, Len(s)))

NO_OUTPUT_REPLY == "I apologize, but I couldn't generate a response."
RATE_LIMIT_REPLY ==
    "I'm currently experiencing high demand. Please try again in a moment."
API_KEY_REPLY == "API key error. Please refresh the page after updating your API key."
OTHER_ERROR_REPLY ==
    "I encountered an error while processing your request. Please try again."

\* what agent_executor.invoke can do: return a dict with or without "output",
\* or raise an exception with some message
AgentOutcomes ==
    {[kind |-> "output", text |-> "Ann Lee runs Acme."],
     [kind |-> "nooutput", text |-> ""],
     [kind |-> "error", text |-> "Rate Limit reached for gpt-3.5-turbo"],
     [kind |-> "error", text |-> "Incorrect API key provided"],
     [kind |-> "error", text |-> "AuthenticationError: 401"],
     [kind |-> "error", text |-> "Connection reset"]}

Inputs == {"hi", "who runs acme"}

\* no handler around the invoke: its exception leaves get_agent_response
GetAgentResponseUncaught(outcome, keys) ==
    IF outcome.kind = "output"
    THEN [raised |-> FALSE, text |-> outcome.text, keys |-> keys]
    ELSE IF outcome.kind = "nooutput"
    THEN [raised |-> FALSE, text |-> NO_OUTPUT_REPLY, keys |-> keys]
    ELSE [raised |-> TRUE, text |-> "", keys |-> keys]

\* get_agent_response: the reply, and the session keys it leaves
get_agent_response(outcome, keys) ==
    IF outcome.kind = "output"
    THEN [raised |-> FALSE, text |-> outcome.text, keys |-> keys]
    ELSE IF outcome.kind = "nooutput"
    THEN [raised |-> FALSE, text |-> NO_OUTPUT_REPLY, keys |-> keys]
    ELSE LET error_msg == Lower(outcome.text)
         IN  IF Contains(error_msg, "rate limit")
             THEN [raised |-> FALSE, text |-> RATE_LIMIT_REPLY, keys |-> keys]
             ELSE IF Contains(error_msg, "api key")
                        \/ Contains(error_msg, "authentication")
             THEN [raised |-> FALSE, text |-> API_KEY_REPLY,
                   keys |-> keys \ {"agent"}]
             ELSE [raised |-> FALSE, text |-> OTHER_ERROR_REPLY, keys |-> keys]

\* the session after the two initialisations at the top of main()
MessagesAtStart == IF "messages" \in sessionKeys THEN messages ELSE <<>>
MemoryAtStart == IF "agent" \in sessionKeys THEN memory ELSE 0
KeysAtStart == sessionKeys \cup {"messages", "agent"}

\* no API key and none typed in: st.stop() before anything else
RunWithoutKey ==
    /\ ~ keySet
    /\ UNCHANGED uiVars
    /\ UNCHANGED searchVars

\* a key is typed in (or set in the environment) and the page runs
RunProvideKey ==
    /\ ~ keySet
    /\ keySet' = TRUE
    /\ sessionKeys' = KeysAtStart
    /\ messages' = MessagesAtStart
    /\ memory' = MemoryAtStart
    /\ lastRun' = "load"
    /\ UNCHANGED searchVars

\* a run with no chat input and no button pressed
RunReload ==
    /\ keySet
    /\ sessionKeys' = KeysAtStart
    /\ messages' = MessagesAtStart
    /\ memory' = MemoryAtStart
    /\ lastRun' = "load"
    /\ UNCHANGED keySet
    /\ UNCHANGED searchVars

\* a run with a chat submission
RunChat ==
    /\ keySet
    /\ Len(MessagesAtStart) < 2 * MaxTurns
    /\ \E user_input \in Inputs : \E outcome \in AgentOutcomes :
          LET r == get_agent_response(outcome, KeysAtStart)
              shown == Append(MessagesAtStart,
                              [role |-> "user", content |-> user_input])
          IN  /\ messages' =
                    IF r.raised THEN shown
                    ELSE Append(shown, [role |-> "assistant", content |-> r.text])
              /\ sessionKeys' = r.keys
              /\ memory' = IF outcome.kind = "error" THEN MemoryAtStart
                           ELSE MemoryAtStart + 1
    /\ lastRun' = "chat"
    /\ UNCHANGED keySet
    /\ UNCHANGED searchVars

\* a run with the Clear Chat History button pressed, and the rerun it asks for
RunClear ==
    /\ keySet
    /\ messages' = <<>>
    /\ memory' = 0
    /\ sessionKeys' = KeysAtStart
    /\ lastRun' = "clear"
    /\ UNCHANGED keySet
    /\ UNCHANGED searchVars

InitUI ==
    /\ InitSearch({})
    /\ keySet \in BOOLEAN
    /\ sessionKeys = {}
    /\ messages = <<>>
    /\ memory = 0
    /\ lastRun = "none"

NextUI ==
    \/ RunWithoutKey
    \/ RunProvideKey
    \/ RunReload
    \/ RunChat
    \/ RunClear

SpecUI == InitUI /\ [][NextUI]_vars

Replies ==
    {o.text : o \in {x \in AgentOutcomes : x.kind = "output"}}
        \cup {"I apologize, but I couldn't generate a response.",
              "I'm currently experiencing high demand. Please try again in a moment.",
              "API key error. Please refresh the page after updating your API key.",
              "I encountered an error while processing your request. Please try again."}

\* C10: after any sequence of completed runs the message list has even length
\* and alternates user, assistant, each assistant message being the agent's
\* output or a fixed fallback; a chat run ends with exactly the submitted pair,
\* and a Clear click leaves the list empty.
C10_MessagesAlternate ==
    /\ Len(messages) % 2 = 0
    /\ \A k \in 1..Len(messages) :
          IF k % 2 = 1
          THEN messages[k].role = "user" /\ messages[k].content \in Inputs
          ELSE messages[k].role = "assistant" /\ messages[k].content \in Replies
    /\ lastRun = "chat" => Len(messages) >= 2
    /\ lastRun = "clear" => messages = <<>>

\* two submissions: the first hit the rate limit, the second an authentication
\* error that dropped the cached agent
C10_Witness ==
    /\ lastRun = "chat"
    /\ Len(messages) = 4
    /\ messages[2].content = RATE_LIMIT_REPLY
    /\ messages[4].content = API_KEY_REPLY
    /\ "agent" \notin sessionKeys

====
